---- MODULE Spec2Model ----
(***************************************************************************)
(* Study Buddy (src/app.py): a Streamlit script that uploads chapter       *)
(* images to the Gemini file service, keeps the ACTIVE ones in             *)
(* st.session_state.gemini_files and sends them with every chat prompt.    *)
(*                                                                         *)
(* Streamlit executes the whole script, top to bottom, once per user       *)
(* interaction (a change of the file_uploader selection, a chat_input      *)
(* submission) and once more after st.rerun().  st.session_state and the   *)
(* file_uploader selection survive from one script run to the next, the    *)
(* script's local variables and the chat_input value do not.  One script   *)
(* run is modelled statement block by statement block with the program     *)
(* counter pc; pc = "idle" is the session waiting for the next interaction.*)
(***************************************************************************)
EXTENDS Integers, Sequences, FiniteSets, TLC

\* ------------------------------------------------------------- bounds
\* files the file_uploader widget holds at once
MaxBatch == 2
\* temp files / remote uploads created in one session
MaxUploads == 3
\* turns stored in st.session_state.messages
MaxTurns == 3
\* states of one remote file recorded exactly in polled (longer polls saturate)
MaxObs == 4

\* ------------------------------------------------------------- values
FileNames == {"a.png", "b.png"}
Prompts == {"Summarize", "Explain"}
NoPrompt == "<none>"

\* genai File.State names the script distinguishes; STATE_UNSPECIFIED stands
\* for every name that is none of PROCESSING, ACTIVE, FAILED
FileStates == {"PROCESSING", "ACTIVE", "FAILED", "STATE_UNSPECIFIED"}

\* the value of file_to_upload before genai.upload_file has returned
NoFile == [id |-> 0, display_name |-> "", state |-> ""]

\* outcomes of model.generate_content: a response with parts, a response
\* without parts, an exception (from the call or from response.text)
Responses == {"parts", "empty", "raise"}

AnswerText == "answer"
FallbackText == "Model did not provide a response."
ErrorText == "Error generating response: e"

VARIABLES
    hasKey,           \* st.secrets holds GOOGLE_API_KEY
    uploaded_files,   \* the file_uploader selection: a sequence of file names
    prompt,           \* the chat_input value of the current script run
    trigger,          \* what started the current script run
    pc,               \* position of the current script run
    initialized,      \* the three st.session_state keys exist
    messages,         \* st.session_state.messages
    gemini_files,     \* st.session_state.gemini_files, in insertion order
    temp_paths,       \* st.session_state.temp_paths
    files_to_process, \* line 116
    idx,              \* position of the for loop at line 40, then of the zip at line 123
    processed_files,  \* line 31
    temp_file_paths,  \* line 32
    all_success,      \* line 33
    tmp_path,         \* line 44
    file_to_upload,   \* line 50 / 57
    disk,             \* the temporary files of this script run that exist on disk
    nextId,           \* temp files created so far (names the next path and remote id)
    created,          \* history: temp files created by the running upload_and_process_files
    polled,           \* history: the remote states seen of the file being uploaded
    waited,           \* parity of the time.sleep(2) calls made for the file being uploaded
    steady,           \* history: names of the batch polled exactly PROCESSING, PROCESSING, ACTIVE
    regAtStart,       \* history: gemini_files when the current script run started
    request,          \* history: the content list of the last generate_content call
    response,         \* history: the outcome of the last generate_content call
    genCalls,         \* history: generate_content calls made
    notice,           \* the st.error / st.warning / st.success shown last in this run
    failedFiles       \* history: names whose last upload attempt was not registered

session == <<initialized, messages, gemini_files, temp_paths>>
locals == <<files_to_process, idx, processed_files, temp_file_paths, all_success,
            tmp_path, file_to_upload>>
world == <<hasKey, nextId>>
history == <<created, polled, waited, steady, regAtStart, request, response, genCalls, failedFiles>>
vars == <<uploaded_files, prompt, trigger, pc, session, locals, world, disk, history,
         notice>>

\* ------------------------------------------------------------- helpers
Min(a, b) == IF a < b THEN a ELSE b

Range(s) == {s[k] : k \in DOMAIN s}

\* sequences over S of length at most n
SeqUpTo(S, n) == UNION {[1..k -> S] : k \in 0..n}

\* Python dict of str -> File kept as the sequence of its items
Keys(d) == {d[k].name : k \in DOMAIN d}

\* list(d.values())
Values(d) == [k \in DOMAIN d |-> d[k].file]

\* d[name]
Lookup(d, name) == d[CHOOSE k \in DOMAIN d : d[k].name = name].file

\* d[name] = file: a new key is appended, an existing key keeps its place
DictSet(d, name, file) ==
    IF name \in Keys(d)
    THEN [k \in DOMAIN d |-> IF d[k].name = name THEN [name |-> name, file |-> file] ELSE d[k]]
    ELSE Append(d, [name |-> name, file |-> file])

\* one element of the content list handed to generate_content
FilePart(f) == [file |-> f, text |-> ""]
TextPart(t) == [file |-> NoFile, text |-> t]

\* one entry of st.session_state.messages: {"role": r, "content": [t]}
Turn(r, t) == [role |-> r, content |-> t]

\* line 116 without its filter: every selected file is processed again
FilesToProcessUnfiltered(uploaded, reg) == uploaded

\* line 116: [f for f in uploaded_files if f.name not in st.session_state.gemini_files]
FilesToProcess(uploaded, reg) ==
    LET NotStored(f) == f \notin Keys(reg)
    IN  SelectSeq(uploaded, NotStored)

\* lines 59-68 with the elif dropped: every state but FAILED counts as ACTIVE
ClassifyNotFailed(processed, success, file) ==
    IF file.state = "FAILED"
    THEN [processed |-> processed, success |-> FALSE]
    ELSE [processed |-> Append(processed, file), success |-> success]

\* lines 59-68 without line 61: a FAILED file is left out but all_success stays
ClassifyFailedSilently(processed, success, file) ==
    IF file.state = "FAILED"
    THEN [processed |-> processed, success |-> success]
    ELSE IF file.state = "ACTIVE"
    THEN [processed |-> Append(processed, file), success |-> success]
    ELSE [processed |-> processed, success |-> FALSE]

\* lines 59-68: processed_files and all_success after the if / elif / else
\* on the state the file left PROCESSING with
Classify(processed, success, file) ==
    IF file.state = "FAILED"
    THEN [processed |-> processed, success |-> FALSE]
    ELSE IF file.state = "ACTIVE"
    THEN [processed |-> Append(processed, file), success |-> success]
    ELSE [processed |-> processed, success |-> FALSE]

\* line 176 with the check lost: the script never stops for an empty Registry
NothingUploadedIgnored(reg) == FALSE

\* line 176: not st.session_state.gemini_files
NothingUploaded(reg) == reg = <<>>

\* line 180 with the operands swapped: the prompt before the files
GeminiContentListPromptFirst(reg, p) ==
    <<TextPart(p)>> \o [k \in 1..Len(reg) |-> FilePart(Values(reg)[k])]

\* line 180: list(st.session_state.gemini_files.values()) + [prompt]
GeminiContentList(reg, p) ==
    [k \in 1..Len(reg) |-> FilePart(Values(reg)[k])] \o <<TextPart(p)>>

\* lines 166 / 199 / 205 as an assignment to the last entry instead of append
StoreTurnOverLast(msgs, turn) ==
    IF msgs = <<>> THEN <<turn>> ELSE [msgs EXCEPT ![Len(msgs)] = turn]

\* lines 166 / 199 / 205 executed twice for one turn
StoreTurnTwice(msgs, turn) == Append(Append(msgs, turn), turn)

\* lines 166 / 199 / 205: st.session_state.messages.append(turn)
StoreTurn(msgs, turn) == Append(msgs, turn)

\* lines 191-195 without the check of response.parts: response.text raises
\* for a response without parts and the except branch stores the error text
ResponseTurnNoPartsCheck(r) ==
    IF r = "parts" THEN Turn("assistant", AnswerText)
    ELSE Turn("assistant", ErrorText)

\* lines 201-205 with the exception stored as a user turn
ResponseTurnErrorAsUser(r) ==
    IF r = "raise" THEN Turn("user", ErrorText)
    ELSE IF r = "empty" THEN Turn("assistant", FallbackText)
    ELSE Turn("assistant", AnswerText)

\* lines 188-205: the assistant turn stored for an outcome of generate_content
ResponseTurn(r) ==
    IF r = "raise" THEN Turn("assistant", ErrorText)
    ELSE IF r = "empty" THEN Turn("assistant", FallbackText)
    ELSE Turn("assistant", AnswerText)

\* lines 76-82: the disk after the finally block, when os.remove raised for stuck
CleanedDisk(d, paths, stuck) == d \ (Range(paths) \ stuck)

\* polled with state s seen next: exact up to MaxObs states, after that only
\* the last state is replaced
Observe(p, s) ==
    IF Len(p) < MaxObs THEN Append(p, s) ELSE [p EXCEPT ![MaxObs] = s]

\* ------------------------------------------------------------- initial state
Init ==
    /\ hasKey \in BOOLEAN
    /\ uploaded_files = <<>>
    /\ prompt = NoPrompt
    /\ trigger = "none"
    /\ pc = "idle"
    /\ initialized = FALSE
    /\ messages = <<>>
    /\ gemini_files = <<>>
    /\ temp_paths = <<>>
    /\ files_to_process = <<>>
    /\ idx = 0
    /\ processed_files = <<>>
    /\ temp_file_paths = <<>>
    /\ all_success = TRUE
    /\ tmp_path = 0
    /\ file_to_upload = NoFile
    /\ disk = {}
    /\ nextId = 0
    /\ created = {}
    /\ polled = <<>>
    /\ waited = FALSE
    /\ steady = {}
    /\ regAtStart = <<>>
    /\ request = <<>>
    /\ response = "none"
    /\ genCalls = 0
    /\ notice = "none"
    /\ failedFiles = {}

\* the script's local variables before line 31 has run
LocalsReset ==
    /\ files_to_process' = <<>>
    /\ idx' = 0
    /\ processed_files' = <<>>
    /\ temp_file_paths' = <<>>
    /\ all_success' = TRUE
    /\ tmp_path' = 0
    /\ file_to_upload' = NoFile

\* a script run starts: the widgets deliver their values
StartRun(files, p, why) ==
    /\ uploaded_files' = files
    /\ prompt' = p
    /\ trigger' = why
    /\ pc' = "config"
    /\ regAtStart' = gemini_files

\* the page, the history of the calls and the temp files of a script run
\* before it has shown, called or created anything (the temp files an
\* earlier run left behind are not followed: no statement refers to them)
OutputReset ==
    /\ notice' = "none"
    /\ request' = <<>>
    /\ response' = "none"
    /\ created' = {}
    /\ disk' = {}
    /\ polled' = <<>>
    /\ waited' = FALSE
    /\ steady' = {}

\* the script run is over (end of script or st.stop()): its locals are gone,
\* the page shows what it wrote
EndRun(shown) ==
    /\ pc' = "done"
    /\ notice' = shown
    /\ LocalsReset
    /\ UNCHANGED <<prompt, trigger, created, polled, waited, steady>>

\* ------------------------------------------------------------- interactions
\* uploads the script run started by a selection would make
Budget(files) == nextId + Len(FilesToProcess(files, gemini_files)) <= MaxUploads

\* lines 97-102: the user changes the selection of the file_uploader
SelectFiles(files) ==
    /\ pc = "idle"
    /\ files # uploaded_files
    /\ Budget(files)
    /\ StartRun(files, NoPrompt, "select")
    /\ UNCHANGED <<session, locals, world, disk, notice, created, polled, waited, steady, request,
                   response, genCalls, failedFiles>>

\* line 154: the user submits a prompt in the chat_input
SubmitPrompt(p) ==
    /\ pc = "idle"
    /\ Len(messages) + 2 <= MaxTurns
    /\ Budget(uploaded_files)
    /\ StartRun(uploaded_files, p, "prompt")
    /\ UNCHANGED <<session, locals, world, disk, notice, created, polled, waited, steady, request,
                   response, genCalls, failedFiles>>

\* ------------------------------------------------------------- the script
\* lines 10-15 without st.stop(): the script goes on without the API key
ConfigureNoStop ==
    /\ pc = "config"
    /\ pc' = "model"
    /\ notice' = IF hasKey THEN notice ELSE "no_api_key"
    /\ UNCHANGED <<uploaded_files, prompt, trigger, session, locals, world, disk, history>>

\* lines 10-15: read the API key; without it st.error and st.stop()
Configure ==
    /\ pc = "config"
    /\ IF hasKey
       THEN /\ pc' = "model"
            /\ UNCHANGED <<prompt, trigger, notice, locals, created, polled, waited, steady>>
       ELSE EndRun("no_api_key")
    /\ UNCHANGED <<uploaded_files, session, world, disk, regAtStart, request, response,
                   genCalls, failedFiles>>

\* lines 19-23: genai.GenerativeModel(MODEL_NAME); an exception stops the run
InitModel ==
    /\ pc = "model"
    /\ \E ok \in BOOLEAN :
          IF ok
          THEN /\ pc' = "session"
               /\ UNCHANGED <<prompt, trigger, notice, locals, created, polled, waited, steady>>
          ELSE EndRun("model_error")
    /\ UNCHANGED <<uploaded_files, session, world, disk, regAtStart, request, response,
                   genCalls, failedFiles>>

\* lines 87-92: create the session_state keys that do not exist yet
InitSession ==
    /\ pc = "session"
    /\ initialized' = TRUE
    /\ pc' = "filter"
    /\ UNCHANGED <<uploaded_files, prompt, trigger, notice, messages, gemini_files,
                   temp_paths, locals, world, disk, history>>

\* lines 113-119: filter the selection; call upload_and_process_files (lines
\* 31-36) when something is left
ProcessNewFiles ==
    /\ pc = "filter"
    /\ LET todo == FilesToProcess(uploaded_files, gemini_files)
       IN  IF uploaded_files # <<>> /\ todo # <<>>
           THEN /\ files_to_process' = todo
                /\ idx' = 1
                /\ pc' = "loop"
           ELSE /\ pc' = "chat"
                /\ UNCHANGED <<files_to_process, idx>>
    /\ UNCHANGED <<uploaded_files, prompt, trigger, notice, session, processed_files,
                   temp_file_paths, all_success, tmp_path, file_to_upload, world, disk,
                   history>>

\* lines 40-42: the next file of the batch; NamedTemporaryFile(delete=False)
\* creates its temp file.  After the last file the loop is left.
NextFile ==
    /\ pc = "loop"
    /\ IF idx <= Len(files_to_process)
       THEN /\ nextId' = nextId + 1
            /\ tmp_path' = nextId + 1
            /\ disk' = disk \cup {nextId + 1}
            /\ created' = created \cup {nextId + 1}
            /\ file_to_upload' = NoFile
            /\ polled' = <<>>
            /\ waited' = FALSE
            /\ pc' = "write"
       ELSE /\ pc' = "finally"
            /\ UNCHANGED <<nextId, tmp_path, disk, created, file_to_upload, polled, waited>>
    /\ UNCHANGED <<uploaded_files, prompt, trigger, notice, session, files_to_process,
                   idx, processed_files, temp_file_paths, all_success, hasKey, steady,
                   regAtStart, request, response, genCalls, failedFiles>>

\* lines 43-45: write the bytes and record the path; an exception of the
\* write (line 43) leaves the with block before line 45 and goes to line 70
WriteTemp ==
    /\ pc = "write"
    /\ \E ok \in BOOLEAN :
          IF ok
          THEN /\ temp_file_paths' = Append(temp_file_paths, tmp_path)
               /\ pc' = "upload"
               /\ UNCHANGED <<all_success, notice>>
          ELSE /\ all_success' = FALSE
               /\ notice' = "processing_error"
               /\ pc' = "finally"
               /\ UNCHANGED temp_file_paths
    /\ UNCHANGED <<uploaded_files, prompt, trigger, session, files_to_process, idx,
                   processed_files, tmp_path, file_to_upload, world, disk, history>>

\* line 50 with the try / except inside the for loop: after an exception of
\* genai.upload_file the loop goes on with the next file
UploadFileSkipsOnError ==
    /\ pc = "upload"
    /\ \/ \E s \in FileStates :
             /\ file_to_upload' = [id |-> tmp_path,
                                   display_name |-> files_to_process[idx],
                                   state |-> s]
             /\ polled' = Observe(polled, s)
             /\ pc' = "poll"
             /\ UNCHANGED waited
             /\ idx' = idx
             /\ UNCHANGED <<all_success, notice>>
       \/ /\ all_success' = FALSE
          /\ notice' = "processing_error"
          /\ idx' = idx + 1
          /\ pc' = "loop"
          /\ UNCHANGED <<file_to_upload, polled, waited>>
    /\ UNCHANGED <<uploaded_files, prompt, trigger, session, files_to_process,
                   processed_files, temp_file_paths, tmp_path, world, disk, created, steady,
                   regAtStart, request, response, genCalls, failedFiles>>

\* line 50: genai.upload_file returns the remote file in some state, or raises
UploadFile ==
    /\ pc = "upload"
    /\ \/ \E s \in FileStates :
             /\ file_to_upload' = [id |-> tmp_path,
                                   display_name |-> files_to_process[idx],
                                   state |-> s]
             /\ polled' = Observe(polled, s)
             /\ pc' = "poll"
             /\ UNCHANGED waited
             /\ UNCHANGED <<all_success, notice>>
       \/ /\ all_success' = FALSE
          /\ notice' = "processing_error"
          /\ pc' = "finally"
          /\ UNCHANGED <<file_to_upload, polled, waited>>
    /\ UNCHANGED <<uploaded_files, prompt, trigger, session, files_to_process, idx,
                   processed_files, temp_file_paths, tmp_path, world, disk, created, steady,
                   regAtStart, request, response, genCalls, failedFiles>>

\* lines 54-57 outside any try: an exception of genai.get_file ends the
\* script run where it is raised
PollFileUncaught ==
    /\ pc = "poll"
    /\ file_to_upload.state = "PROCESSING"
    /\ \/ \E s \in FileStates :
             /\ file_to_upload' = [file_to_upload EXCEPT !.state = s]
             /\ polled' = Observe(polled, s)
             /\ waited' = ~waited
             /\ UNCHANGED <<all_success, notice, pc, prompt, trigger, files_to_process,
                            idx, processed_files, temp_file_paths, tmp_path, created,
                            steady>>
       \/ EndRun("exception")
    /\ UNCHANGED <<uploaded_files, session, world, disk, regAtStart, request, response,
                   genCalls, failedFiles>>

\* lines 54-57 with the refreshed handle never stored: genai.get_file is
\* called but file_to_upload keeps the state it had after genai.upload_file
PollFileNoRefresh ==
    /\ pc = "poll"
    /\ file_to_upload.state = "PROCESSING"
    /\ \/ \E s \in FileStates :
             /\ polled' = Observe(polled, s)
             /\ waited' = ~waited
             /\ UNCHANGED <<file_to_upload, all_success, notice, pc>>
       \/ /\ all_success' = FALSE
          /\ notice' = "processing_error"
          /\ pc' = "finally"
          /\ UNCHANGED <<file_to_upload, polled, waited>>
    /\ UNCHANGED <<uploaded_files, prompt, trigger, session, files_to_process, idx,
                   processed_files, temp_file_paths, tmp_path, world, disk, created, steady,
                   regAtStart, request, response, genCalls, failedFiles>>

\* lines 54-57: while the state is PROCESSING, sleep and genai.get_file
PollFile ==
    /\ pc = "poll"
    /\ file_to_upload.state = "PROCESSING"
    /\ \/ \E s \in FileStates :
             /\ file_to_upload' = [file_to_upload EXCEPT !.state = s]
             /\ polled' = Observe(polled, s)
             /\ waited' = ~waited
             /\ UNCHANGED <<all_success, notice, pc>>
       \/ /\ all_success' = FALSE
          /\ notice' = "processing_error"
          /\ pc' = "finally"
          /\ UNCHANGED <<file_to_upload, polled, waited>>
    /\ UNCHANGED <<uploaded_files, prompt, trigger, session, files_to_process, idx,
                   processed_files, temp_file_paths, tmp_path, world, disk, created, steady,
                   regAtStart, request, response, genCalls, failedFiles>>

\* lines 59-68: the state left PROCESSING; keep the file if it is ACTIVE
ClassifyFile ==
    /\ pc = "poll"
    /\ file_to_upload.state # "PROCESSING"
    /\ processed_files' = Classify(processed_files, all_success, file_to_upload).processed
    /\ all_success' = Classify(processed_files, all_success, file_to_upload).success
    /\ notice' = IF file_to_upload.state = "FAILED" THEN "upload_failed"
                 ELSE IF file_to_upload.state = "ACTIVE" THEN notice
                 ELSE "unexpected_state"
    /\ steady' = IF polled = <<"PROCESSING", "PROCESSING", "ACTIVE">>
                 THEN steady \cup {files_to_process[idx]} ELSE steady
    /\ polled' = <<>>
    /\ waited' = FALSE
    /\ idx' = idx + 1
    /\ pc' = "loop"
    /\ UNCHANGED <<uploaded_files, prompt, trigger, session, files_to_process,
                   temp_file_paths, tmp_path, file_to_upload, world, disk, created,
                   regAtStart, request, response, genCalls, failedFiles>>

\* lines 74-83: remove the recorded temp files (os.remove may raise for some,
\* which is printed and passed over) and return processed_files,
\* temp_file_paths and all_success; the other locals of the function are gone
CleanUp ==
    /\ pc = "finally"
    /\ \E stuck \in SUBSET (Range(temp_file_paths) \cap disk) :
          disk' = CleanedDisk(disk, temp_file_paths, stuck)
    /\ tmp_path' = 0
    /\ file_to_upload' = NoFile
    /\ polled' = <<>>
    /\ waited' = FALSE
    /\ pc' = "returned"
    /\ UNCHANGED <<uploaded_files, prompt, trigger, notice, session, files_to_process,
                   idx, processed_files, temp_file_paths, all_success, world, created,
                   steady, regAtStart, request, response, genCalls, failedFiles>>

\* line 122 without the test: whatever was processed is registered
MayRegisterAlways(success) == TRUE

\* line 122: if success
MayRegister(success) == success

\* line 124: st.session_state.gemini_files[original_file.name] = gemini_file
RegisterFile(reg, original, gemini) == DictSet(reg, original, gemini)

\* lines 119-129: back in the script with (processed_files, temp_paths,
\* success); without success nothing is registered
AfterUpload ==
    /\ pc = "returned"
    /\ temp_paths' = temp_paths \o temp_file_paths
    /\ IF MayRegister(all_success)
       THEN /\ idx' = 1
            /\ pc' = "register"
            /\ UNCHANGED <<notice, failedFiles>>
       ELSE /\ notice' = "some_files_failed"
            /\ failedFiles' = failedFiles \cup Range(files_to_process)
            /\ pc' = "chat"
            /\ UNCHANGED idx
    /\ UNCHANGED <<uploaded_files, prompt, trigger, initialized, messages, gemini_files,
                   files_to_process, processed_files, temp_file_paths, all_success,
                   tmp_path, file_to_upload, world, disk, created, polled, waited, steady, regAtStart,
                   request, response, genCalls>>

\* lines 123-127: store the next pair of zip(files_to_process, processed_files);
\* after the last pair st.success and st.rerun(), which starts the script
\* again with the same selection and no prompt
RegisterNext ==
    /\ pc = "register"
    /\ IF idx <= Min(Len(files_to_process), Len(processed_files))
       THEN /\ gemini_files' = RegisterFile(gemini_files, files_to_process[idx],
                                            processed_files[idx])
            /\ failedFiles' = failedFiles \ {files_to_process[idx]}
            /\ idx' = idx + 1
            /\ UNCHANGED <<uploaded_files, prompt, trigger, pc, notice,
                           files_to_process, processed_files, temp_file_paths,
                           all_success, tmp_path, file_to_upload, disk, created,
                           polled, waited, steady, regAtStart, request, response>>
       ELSE /\ StartRun(uploaded_files, NoPrompt, "rerun")
            /\ LocalsReset
            /\ OutputReset
            /\ UNCHANGED <<gemini_files, failedFiles>>
    /\ UNCHANGED <<initialized, messages, temp_paths, world, genCalls>>

\* lines 154-178: without a prompt the script ends; with one, the user turn
\* is stored, and with no stored file st.warning and st.stop()
ChatInput ==
    /\ pc = "chat"
    /\ IF prompt = NoPrompt
       THEN /\ EndRun(notice)
            /\ UNCHANGED messages
       ELSE /\ messages' = StoreTurn(messages, Turn("user", prompt))
            /\ IF NothingUploaded(gemini_files)
               THEN EndRun("upload_images_first")
               ELSE /\ pc' = "generate"
                    /\ UNCHANGED <<prompt, trigger, notice, locals, created, polled, waited, steady>>
    /\ UNCHANGED <<uploaded_files, initialized, gemini_files, temp_paths, world, disk,
                   regAtStart, request, response, genCalls, failedFiles>>

\* lines 180-205: build the content list, model.generate_content, store the
\* assistant turn: the text, the fallback notice, or the error text
Generate ==
    /\ pc = "generate"
    /\ request' = GeminiContentList(gemini_files, prompt)
    /\ genCalls' = genCalls + 1
    /\ \E r \in Responses :
          /\ response' = r
          /\ messages' = StoreTurn(messages, ResponseTurn(r))
          /\ EndRun(IF r = "raise" THEN "generation_error" ELSE notice)
    /\ UNCHANGED <<uploaded_files, initialized, gemini_files, temp_paths, world, disk,
                   regAtStart, failedFiles>>

\* the page of the finished run is up; the session waits for an interaction
Finish ==
    /\ pc = "done"
    /\ pc' = "idle"
    /\ prompt' = NoPrompt
    /\ trigger' = "none"
    /\ OutputReset
    /\ UNCHANGED <<uploaded_files, session, locals, world, regAtStart, genCalls,
                   failedFiles>>

\* ------------------------------------------------------------- specification
Next ==
    \/ \E files \in SeqUpTo(FileNames, MaxBatch) : SelectFiles(files)
    \/ \E p \in Prompts : SubmitPrompt(p)
    \/ Configure
    \/ InitModel
    \/ InitSession
    \/ ProcessNewFiles
    \/ NextFile
    \/ WriteTemp
    \/ UploadFile
    \/ PollFile
    \/ ClassifyFile
    \/ CleanUp
    \/ AfterUpload
    \/ RegisterNext
    \/ ChatInput
    \/ Generate
    \/ Finish

Spec == Init /\ [][Next]_vars

\* lines 54-57, the refresh that lets the loop end: genai.get_file returns
\* the file in a state other than PROCESSING
PollResolved ==
    /\ PollFile
    /\ pc' = "poll"
    /\ file_to_upload'.state # "PROCESSING"

\* the statements of one script run, lines 10-205: everything the
\* interpreter does by itself once a run has started
ScriptStep ==
    \/ Configure
    \/ InitModel
    \/ InitSession
    \/ ProcessNewFiles
    \/ NextFile
    \/ WriteTemp
    \/ UploadFile
    \/ PollFile
    \/ ClassifyFile
    \/ CleanUp
    \/ AfterUpload
    \/ RegisterNext
    \/ ChatInput
    \/ Finish

\* lines 97-129: the first selection of a session in the file_uploader; no
\* prompt is submitted
FirstSelection ==
    /\ nextId = 0
    /\ \E files \in SeqUpTo(FileNames, MaxBatch) : SelectFiles(files)

UploadNext ==
    \/ FirstSelection
    \/ ScriptStep

\* An upload session: the interpreter keeps executing the script run it
\* started (weak fairness of ScriptStep), and the remote service, asked again
\* and again by the loop of lines 54-57, eventually answers with a state
\* other than PROCESSING (strong fairness of PollResolved).
UploadSpec ==
    /\ Init
    /\ [][UploadNext]_vars
    /\ WF_vars(ScriptStep)
    /\ SF_vars(PollResolved)

\* ------------------------------------------------------------- properties
\* the script is inside the for loop of upload_and_process_files, at a file
Uploading == pc \in {"write", "upload", "poll"}

\* C1: every handle stored in the Registry (gemini_files) was ACTIVE when its
\* polling ended; a file that ended FAILED or in any other state is never a
\* value of the Registry.
C1_RegistryOnlyActive ==
    \A k \in DOMAIN gemini_files : gemini_files[k].file.state = "ACTIVE"

\* C1 witness: a file is registered although an upload attempt of the
\* session ended without registration.
C1_Witness == gemini_files # <<>> /\ failedFiles # {}

\* C2: a selected file whose name was a key of the Registry when the script
\* run started is not in the batch handed to upload_and_process_files, is not
\* the file being staged, uploaded or polled, and keeps its Registry entry.
C2_IdempotentSkip ==
    \A f \in Range(uploaded_files) \cap Keys(regAtStart) :
        /\ f \notin Range(files_to_process)
        /\ file_to_upload.display_name # f
        /\ f \in Keys(gemini_files)
        /\ Lookup(gemini_files, f) = Lookup(regAtStart, f)

\* C2 witness: another file is being uploaded while the selection holds a
\* file that is already registered.
C2_Witness ==
    /\ Uploading
    /\ Range(uploaded_files) \cap Keys(regAtStart) # {}

\* the upload block of the script run (lines 114-129) is behind the script
\* and its locals are still there
UploadEventOver ==
    \/ pc \in {"chat", "generate"}
    \/ pc = "register" /\ idx > Min(Len(files_to_process), Len(processed_files))

\* C3: a file of the batch polled exactly PROCESSING, PROCESSING, ACTIVE is no
\* key of the Registry while it is staged, uploaded and polled, and once the
\* upload block that processed it is over the Registry holds exactly one
\* entry with its name.
C3_SteadyFileRegistered ==
    /\ Uploading => files_to_process[idx] \notin Keys(gemini_files)
    /\ \A f \in steady :
          UploadEventOver =>
             Cardinality({k \in DOMAIN gemini_files : gemini_files[k].name = f}) = 1

\* C3 witness: the upload block is over for a batch with such a file.
C3_Witness == steady # {} /\ UploadEventOver

\* C4: when upload_and_process_files has returned, no temp file created
\* during the call exists on disk.
C4_TempFilesReleased == pc = "returned" => created \cap disk = {}

\* C4 witness: the function has returned after creating a temp file.
C4_Witness == pc = "returned" /\ created # {}

\* C5: a prompt submitted while the Registry is empty ends the script run
\* with the "please upload images first" warning and without a
\* generate_content call; generate_content is only ever called with a
\* non-empty Registry.
C5_EmptyRegistryNoGeneration ==
    [][ /\ (pc = "chat" /\ prompt # NoPrompt /\ gemini_files = <<>>)
           => /\ pc' = "done"
              /\ notice' = "upload_images_first"
              /\ genCalls' = genCalls
              /\ response' = "none"
        /\ genCalls' # genCalls => gemini_files # <<>> ]_vars

\* C5 witness: the run of a prompt has ended with that warning.
C5_Witness ==
    /\ pc = "done"
    /\ prompt \in Prompts
    /\ notice = "upload_images_first"
    /\ gemini_files = <<>>

\* C6: the content list of a generate_content call is the handles of the
\* Registry, each once and in the Registry's order, followed by the prompt
\* as its last element.
C6_RequestIsFilesThenPrompt ==
    response # "none" =>
        /\ Len(request) = Len(gemini_files) + 1
        /\ request[Len(request)] = TextPart(prompt)
        /\ \A k \in DOMAIN gemini_files :
              /\ request[k] = FilePart(gemini_files[k].file)
              /\ Cardinality({n \in DOMAIN request : request[n] = request[k]}) = 1

\* C6 witness: a call was made for the prompt "Summarize" with two files
\* registered.
C6_Witness ==
    /\ response # "none"
    /\ prompt = "Summarize"
    /\ Keys(gemini_files) = {"a.png", "b.png"}

\* C7: a generate_content response without parts is not an error: the
\* fallback notice is appended after the prompt's user turn as one
\* assistant turn.
C7_EmptyResponseFallback ==
    [][ (pc = "generate" /\ response' = "empty")
           => /\ messages[Len(messages)] = Turn("user", prompt)
              /\ messages' = Append(messages, Turn("assistant", FallbackText))
              /\ notice' # "generation_error" ]_vars

\* C7 witness: the run has ended after a response without parts.
C7_Witness ==
    /\ pc = "done"
    /\ response = "empty"
    /\ messages[Len(messages)] = Turn("assistant", FallbackText)

\* C8: an exception of generate_content is caught: one assistant turn with
\* the error text is appended, the Registry is unchanged and the script run
\* ends as every other does, so the session takes the next interaction.
C8_GenerationErrorCaught ==
    [][ (pc = "generate" /\ response' = "raise")
           => /\ messages' = Append(messages, Turn("assistant", ErrorText))
              /\ gemini_files' = gemini_files
              /\ notice' = "generation_error"
              /\ pc' = "done" ]_vars

\* C8 witness: with the error turn stored, a later upload is being handled.
C8_Witness ==
    /\ \E k \in DOMAIN messages : messages[k] = Turn("assistant", ErrorText)
    /\ Uploading

\* C9: once a filename is mapped to a handle in the Registry, it stays mapped
\* to that handle in every later state.
C9_FirstUploadWins ==
    [][ \A f \in Keys(gemini_files) :
           /\ f \in Keys(gemini_files')
           /\ Lookup(gemini_files', f) = Lookup(gemini_files, f) ]_vars

\* C9 witness: a file is registered and a later batch is being registered.
C9_Witness == pc = "register" /\ regAtStart # <<>>

\* C10: a file whose upload attempt ended in failure is staged and uploaded
\* again only in a script run that a change of the selection started.
C10_NoAutomaticRetry ==
    (Uploading /\ files_to_process[idx] \in failedFiles) => trigger = "select"

\* C10 witness: a file whose earlier attempt failed is being uploaded again.
C10_Witness == Uploading /\ files_to_process[idx] \in failedFiles

\* C11: a selected file whose earlier upload attempt failed is not filtered
\* out of the batch, and when its new attempt has ended ACTIVE the script
\* goes on to register it.
C11_RetryAfterFailure ==
    [][ /\ pc = "filter" =>
              \A f \in failedFiles \cap Range(uploaded_files) :
                  f \in Range(files_to_process')
        /\ ( /\ pc = "returned"
             /\ \E k \in DOMAIN processed_files :
                   processed_files[k].display_name \in failedFiles )
           => pc' = "register" ]_vars

\* C11 witness: upload_and_process_files has returned with an ACTIVE handle
\* for a file whose earlier attempt failed.
C11_Witness ==
    /\ pc = "returned"
    /\ \E k \in DOMAIN processed_files :
          processed_files[k].display_name \in failedFiles

\* C12: the Conversation Store is append-only: every step leaves the stored
\* turns as they are and adds new turns only at the end.
C12_AppendOnly ==
    [][ /\ Len(messages') >= Len(messages)
        /\ SubSeq(messages', 1, Len(messages)) = messages ]_vars

\* C12 witness: three turns are stored.
C12_Witness == Len(messages) = 3

\* C13 as claimed: after a failure of a file of the batch (an exception, or
\* a polled state ending FAILED) no later file of the batch is staged or
\* uploaded.
C13_FailureAbortsBatch == Uploading => all_success

\* C13 as amended: the files of a batch are staged and uploaded one at a
\* time in list order, and after an exception raised while staging,
\* uploading or polling no later file of the batch is staged or uploaded.
C13_ExceptionAbortsBatch ==
    Uploading =>
        /\ notice # "processing_error"
        /\ idx \in 1..Len(files_to_process)
        /\ Cardinality(created) = idx
        /\ file_to_upload # NoFile => file_to_upload.display_name = files_to_process[idx]
        /\ Len(temp_file_paths) \in {idx - 1, idx}

\* C13 witness: an exception has ended the loop before the last file of the
\* batch.
C13_Witness ==
    /\ pc = "finally"
    /\ notice = "processing_error"
    /\ idx < Len(files_to_process)

\* C14 as claimed, the last part: a script run that stops during startup
\* (before the session state is set up) stops for the missing credential.
C14_OnlyCredentialHalts ==
    [][ (pc \in {"config", "model"} /\ pc' = "done") => ~hasKey ]_vars

\* C14 as amended: an exception of upload_file or get_file is caught in
\* upload_and_process_files and reported, an exception of generate_content
\* is caught in the prompt handler and reported, in both cases the script
\* run goes on to its end; a script run stops before handling its event
\* only for the missing credential or for an exception of the model
\* construction at startup.
C14_RemoteExceptionsCaught ==
    [][ /\ (pc \in {"upload", "poll"} /\ pc' \notin {"poll", "loop"})
           => /\ pc' = "finally"
              /\ notice' = "processing_error"
              /\ all_success' = FALSE
        /\ (pc = "generate" /\ response' = "raise")
           => /\ pc' = "done"
              /\ notice' = "generation_error"
        /\ (pc' = "done" /\ pc \notin {"chat", "generate"})
           => \/ pc = "config" /\ ~hasKey /\ notice' = "no_api_key"
              \/ pc = "model" /\ notice' = "model_error"
        /\ pc = "done" => pc' = "idle" ]_vars

\* C14 witness: an exception of get_file has been caught while a file was
\* being polled.
C14_Witness ==
    /\ pc = "finally"
    /\ notice = "processing_error"
    /\ file_to_upload.state = "PROCESSING"

\* C15: without the credential no session state is set up and no remote
\* call is made: no file is staged or uploaded, nothing is polled,
\* generate_content is never called, and every script run ends at the
\* credential check.
C15_NoKeyNoSession ==
    ~hasKey =>
        /\ ~initialized
        /\ pc \in {"idle", "config", "done"}
        /\ nextId = 0
        /\ file_to_upload = NoFile
        /\ polled = <<>>
        /\ genCalls = 0
        /\ messages = <<>>
        /\ gemini_files = <<>>

\* C15 witness: a script run has stopped for the missing credential.
C15_Witness == ~hasKey /\ pc = "done" /\ notice = "no_api_key"

\* C17: a batch is registered all or nothing: the Registry differs from what
\* it was when the script run started only while a batch is registered of
\* which every file ended ACTIVE and in which no exception was raised; once
\* a batch with a failure is behind the script the Registry is as before,
\* also for the files of the batch that ended ACTIVE.
C17_AllOrNothing ==
    /\ gemini_files # regAtStart =>
          /\ pc = "register"
          /\ all_success
          /\ Len(processed_files) = Len(files_to_process)
          /\ \A k \in DOMAIN processed_files :
                /\ processed_files[k].state = "ACTIVE"
                /\ processed_files[k].id \in Range(temp_file_paths)
    /\ (pc \in {"returned", "register", "chat", "generate"} /\ ~all_success)
          => gemini_files = regAtStart

\* C17 witness: a batch with a failure is behind the script, one of its
\* files had ended ACTIVE, and the name of that file is not registered.
C17_Witness ==
    /\ pc = "chat"
    /\ ~all_success
    /\ \E k \in DOMAIN processed_files :
          processed_files[k].display_name \notin Keys(gemini_files)

\* C18: whenever the Registry maps a filename to a handle, the handle is the
\* one the remote service returned for the upload of the file with that
\* name (its display name is the key).
C18_KeyMatchesHandle ==
    \A k \in DOMAIN gemini_files :
        gemini_files[k].file.display_name = gemini_files[k].name

\* C18 witness: a batch of two files with different names has been
\* registered.
C18_Witness ==
    /\ pc = "register"
    /\ Len(files_to_process) = 2
    /\ idx = 3
    /\ files_to_process[1] # files_to_process[2]

C16_PollingTerminates ==
    /\ [][ /\ (pc = "poll" /\ pc' = "loop") => file_to_upload.state # "PROCESSING"
           /\ (pc = "poll" /\ file_to_upload.state = "PROCESSING")
                 => pc' \in {"poll", "finally"} ]_vars
    /\ (pc = "poll") ~> (pc \in {"loop", "finally"})
    /\ Uploading ~> (pc = "returned")

\* the loop has polled a file that stays PROCESSING past the recorded bound
C16_Witness ==
    /\ pc = "poll"
    /\ file_to_upload.state = "PROCESSING"
    /\ Len(polled) = MaxObs
    /\ \A k \in DOMAIN polled : polled[k] = "PROCESSING"
    /\ waited
====
